---- MODULE Spec2Model ----
(***************************************************************************)
(* Dynalock: lease based distributed lock on a conditional-write store.    *)
(*                                                                         *)
(* The model follows src/src/providers/dynamodb/mod.rs.  Every driver      *)
(* instance (a DistLock<DynamoDbDriver>) runs acquire_lock, refresh_lock   *)
(* and release_lock; each of them is one blocking round trip to the store, *)
(* so a call is three steps: the code before the request is sent, the      *)
(* store serving the request atomically, and the code after `.sync()?`.    *)
(* A request can also fail at the provider level (timeout, transport)      *)
(* before or after the store served it.                                    *)
(*                                                                         *)
(* Strings are sequences (the empty String is <<>>), an Option is a        *)
(* sequence of length 0 or 1, an Instant and a Duration are numbers of     *)
(* clock ticks.  The store keeps a single copy of each item; a token is    *)
(* a UUID v4, taken to be fresh on every call (mod.rs lines 31-35).        *)
(***************************************************************************)
EXTENDS Integers, Sequences, FiniteSets, TLC

\* ------------------------------------------------------------------ bounds
\* The number of tokens Uuid::new_v4 hands out in a run (one per acquire call).
MaxUuid == 3
\* The last instant of the monotonic clock.
MaxTime == 2
\* The longest lease duration DistLock::new is given, in clock ticks.
MaxDuration == 1
\* Clock ticks in a second: a Duration is finer than the seconds as_secs() keeps.
TicksPerSec == 2

\* ------------------------------------------------------------------ constants
\* pub const DAY_SECONDS: u64 = 86400
DAY_SECONDS == 86400

\* The driver instances, each a DistLock<DynamoDbDriver> of its own process.
Procs == {"A", "B"}

None == <<>>
Some(x) == <<x>>
is_some(o) == Len(o) = 1
is_none(o) == Len(o) = 0
unwrap(o) == o[1]

\* String::new() and String::is_empty
EmptyString == <<>>
is_empty(s) == Len(s) = 0

\* DynaErrorKind
UnhandledError == "UnhandledError"
ProviderError == "ProviderError"
LockAlreadyAcquired == "LockAlreadyAcquired"
DynaErrorKind == {UnhandledError, ProviderError, LockAlreadyAcquired}

\* DynamoDbDriverInput::default() and the fields DynamoDbDriver::new copies from it
token_field_name == "rvn"
duration_field_name == "duration"
ttl_field_name == "ttl"
ttl_value == DAY_SECONDS * 7
\* The resources: the default partition key value and another one.
Keys == {"singleton", "other"}

\* The lease durations DistLock::new is given, in ticks (never zero).
Durations == 1..MaxDuration

\* Duration::as_secs: the whole seconds of a duration
as_secs(d) == d \div TicksPerSec

\* u64::to_string: the decimal digits of a number
RECURSIVE to_string(_)
to_string(n) == IF n < 10 THEN <<n>> ELSE to_string(n \div 10) \o <<n % 10>>

\* A generator whose tokens come round again.
Uuid_wraps(n) == <<n % 2>>

\* A generator that hands out the same token again.
Uuid_repeated(n) == <<1>>

\* Uuid::new_v4().hyphenated().to_string(): the n-th token drawn, a non-empty String
Uuid(n) == <<n>>

\* What SystemTime::now() can read, in seconds since UNIX_EPOCH; a clock set
\* before the epoch makes duration_since fail.
WallClock == {-1, 0}

VARIABLES
    table,          \* the store: for each key, the item (an Option of attribute map)
    partition_key_value, \* driver.partition_key_value of each instance
    current_token,  \* driver.current_token of each instance
    duration,       \* DistLock.duration of each instance
    pc,             \* where each instance is in a call
    new_token,      \* the local new_token of a running acquire_lock
    req,            \* the request each instance has in flight (an Option)
    resp,           \* the store's answer waiting for each instance (an Option)
    ret,            \* what the last finished call of each instance returned (an Option)
    entry_token,    \* current_token when the running / last call was entered
    raced,          \* the running acquire_lock was sent while another one was still
                    \* unserved, on a resource with no token stored
    served,         \* what the store found serving that call, if its answer arrived
    lease_start,    \* the Instant the caller keeps from its last successful acquire,
                    \* until it calls release (an Option)
    lease_token,    \* the token that acquire wrote
    now,            \* Instant::now()
    next_uuid,      \* how many tokens have been drawn
    recovery,       \* how far each instance is in "acquire failed with
                    \* LockAlreadyAcquired, refresh, retry acquire", no other
                    \* instance having written the record since the refresh read it
    past_tokens,    \* the tokens that were stored and have been replaced or removed
    left            \* the last call of remaining by each instance: the elapsed time
                    \* of its instant and what it returned (an Option)

vars == <<table, partition_key_value, current_token, duration, pc, new_token, req, resp, ret,
          entry_token, raced, served, lease_start, lease_token, now,
          next_uuid, recovery, past_tokens, left>>

\* ------------------------------------------------------------------ the store
\* An item is a map from attribute names to values; a missing item is None.
Attr(item, name) == IF is_some(item) /\ name \in DOMAIN unwrap(item)
                    THEN Some(unwrap(item)[name]) ELSE None

\* An update sent without its condition expression.
ACQUIRE_CONDITION_missing(item, cond_current_token) == TRUE

\* A condition that only compares the token: "#token_field = :cond_current_token"
ACQUIRE_CONDITION_equal_only(item, cond_current_token) ==
    Attr(item, token_field_name) = Some(cond_current_token)

\* A condition that looks for the item instead of its token attribute
ACQUIRE_CONDITION_item_absent(item, cond_current_token) ==
    \/ is_none(item)
    \/ Attr(item, token_field_name) = Some(cond_current_token)

\* A condition that also passes once the TTL hint has run out (the wall clock
\* at 0): "... OR #ttl_field <= :now"
ACQUIRE_CONDITION_expired(item, cond_current_token) ==
    \/ is_none(Attr(item, token_field_name))
    \/ unwrap(Attr(item, token_field_name)) = cond_current_token
    \/ Attr(item, ttl_field_name) = Some(to_string(0))

\* A condition that lets a lease lapse: it also passes once the longest lease
\* duration has gone by on the store's clock.
ACQUIRE_CONDITION_lapsed(item, cond_current_token) ==
    \/ is_none(Attr(item, token_field_name))
    \/ unwrap(Attr(item, token_field_name)) = cond_current_token
    \/ now > MaxDuration

\* A condition without the comparison: "attribute_not_exists(#token_field)"
ACQUIRE_CONDITION_absent_only(item, cond_current_token) ==
    is_none(Attr(item, token_field_name))

\* A condition with the comparison turned round:
\* "attribute_not_exists(#token_field) OR #token_field <> :cond_current_token"
ACQUIRE_CONDITION_negated(item, cond_current_token) ==
    \/ is_none(Attr(item, token_field_name))
    \/ unwrap(Attr(item, token_field_name)) # cond_current_token

\* "attribute_not_exists(#token_field) OR #token_field = :cond_current_token"
ACQUIRE_CONDITION(item, cond_current_token) ==
    \/ is_none(Attr(item, token_field_name))
    \/ unwrap(Attr(item, token_field_name)) = cond_current_token

\* A release sent with the condition of acquire:
\* "attribute_not_exists(#token_field) OR #token_field = :cond_current_token"
RELEASE_CONDITION_as_acquire(item, cond_current_token) ==
    \/ is_none(Attr(item, token_field_name))
    \/ unwrap(Attr(item, token_field_name)) = cond_current_token

\* A release condition with the comparison turned round:
\* "attribute_exists(#token_field) AND #token_field <> :cond_current_token"
RELEASE_CONDITION_negated(item, cond_current_token) ==
    /\ is_some(Attr(item, token_field_name))
    /\ unwrap(Attr(item, token_field_name)) # cond_current_token

\* A release sent without its condition expression.
RELEASE_CONDITION_missing(item, cond_current_token) == TRUE

\* A condition that does not compare the token: "attribute_exists(#token_field)"
RELEASE_CONDITION_exists_only(item, cond_current_token) ==
    is_some(Attr(item, token_field_name))

\* "attribute_exists(#token_field) AND #token_field = :cond_current_token"
RELEASE_CONDITION(item, cond_current_token) ==
    /\ is_some(Attr(item, token_field_name))
    /\ unwrap(Attr(item, token_field_name)) = cond_current_token

\* An update that sets the token alone: "SET #token_field = :new_token"
ACQUIRE_UPDATE_token_only(item, tok, lease, ttl) ==
    LET old == IF is_some(item) THEN unwrap(item) ELSE <<>>
    IN Some([a \in (DOMAIN old) \cup {token_field_name} |->
                IF a = token_field_name THEN tok ELSE old[a]])

\* "SET #token_field = :new_token, #duration_field = :lease, #ttl_field = :ttl"
\* (UpdateItem creates the item when there is none)
ACQUIRE_UPDATE(item, tok, lease, ttl) ==
    LET old == IF is_some(item) THEN unwrap(item) ELSE <<>>
        names == {token_field_name, duration_field_name, ttl_field_name}
    IN Some([a \in (DOMAIN old) \cup names |->
                IF a = token_field_name THEN tok
                ELSE IF a = duration_field_name THEN lease
                ELSE IF a = ttl_field_name THEN ttl
                ELSE old[a]])

\* "REMOVE #token_field"
RELEASE_UPDATE(item) ==
    LET old == IF is_some(item) THEN unwrap(item) ELSE <<>>
    IN Some([a \in (DOMAIN old) \ {token_field_name} |-> old[a]])

\* ------------------------------------------------------------------ errors
\* UpdateItemError / GetItemError variants the calls can come back with
ConditionalCheckFailed == "ConditionalCheckFailed"
HttpDispatch == "HttpDispatch"

\* impl From<SystemTimeError> for DynaError
From_SystemTimeError == UnhandledError

\* A conversion of read failures to the kind of refused writes
From_GetItemError_contended(err) == LockAlreadyAcquired

\* A conversion of read failures to the kind of local failures
From_GetItemError_unhandled(err) == UnhandledError

\* impl From<GetItemError> for DynaError
From_GetItemError(err) == ProviderError

\* A conversion without the ConditionalCheckFailed arm
From_UpdateItemError_no_arm(err) == ProviderError

\* impl From<UpdateItemError> for DynaError
From_UpdateItemError(err) ==
    IF err = ConditionalCheckFailed THEN LockAlreadyAcquired ELSE ProviderError

\* Result values: Ok, or the kind of the DynaError
Ok == "Ok"
Returned(op, res) == Some([op |-> op, res |-> res])

\* Duration::checked_sub
checked_sub(a, b) == IF a >= b THEN Some(a - b) ELSE None
\* Instant::elapsed
elapsed(instant) == now - instant
\* A remaining that forgets the time elapsed
remaining_whole(i, instant) == Some(duration[i])
\* Locking::remaining
remaining(i, instant) == checked_sub(duration[i], elapsed(instant))

\* ------------------------------------------------------------------ Init
\* DynamoDbDriver::new and DistLock::new; the table has no item yet.
Init ==
    /\ table = [k \in Keys |-> None]
    /\ partition_key_value = [i \in Procs |-> "singleton"]
    /\ current_token = [i \in Procs |-> EmptyString]
    /\ duration \in [Procs -> Durations]
    /\ pc = [i \in Procs |-> "idle"]
    /\ new_token = [i \in Procs |-> EmptyString]
    /\ req = [i \in Procs |-> None]
    /\ resp = [i \in Procs |-> None]
    /\ ret = [i \in Procs |-> None]
    /\ entry_token = [i \in Procs |-> EmptyString]
    /\ raced = [i \in Procs |-> FALSE]
    /\ served = [i \in Procs |-> None]
    /\ lease_start = [i \in Procs |-> None]
    /\ lease_token = [i \in Procs |-> EmptyString]
    /\ now = 0
    /\ next_uuid = 0
    /\ recovery = [i \in Procs |-> "no"]
    /\ past_tokens = {}
    /\ left = [i \in Procs |-> None]

\* ------------------------------------------------------------------ acquire_lock
\* The instances whose acquire request is still unserved when instance i sends
\* its own, the resource of both having no token stored
Racing(i) ==
    {j \in Procs \ {i} :
        /\ partition_key_value[j] = partition_key_value[i]
        /\ is_some(req[j]) /\ unwrap(req[j]).op = "acquire"
        /\ is_none(Attr(table[partition_key_value[i]], token_field_name))}

\* acquire_lock up to the request: draw the token, adopt it on the first run,
\* read the wall clock (the `?` returns UnhandledError), build and send the update.
AcquireLock_call(i, wall) ==
    /\ UNCHANGED <<left, past_tokens>>
    /\ recovery' = [recovery EXCEPT ![i] =
            IF recovery[i] = "refresh_read" /\ wall >= 0 THEN "retry_sent" ELSE "no"]
    /\ pc[i] = "idle"
    /\ next_uuid < MaxUuid
    /\ LET tok == Uuid(next_uuid + 1)
           cur == IF is_empty(current_token[i]) THEN tok ELSE current_token[i]
       IN /\ next_uuid' = next_uuid + 1
          /\ new_token' = [new_token EXCEPT ![i] = tok]
          /\ entry_token' = [entry_token EXCEPT ![i] = current_token[i]]
          /\ raced' = [j \in Procs |->
                IF wall < 0 THEN raced[j]
                ELSE IF j = i THEN Racing(i) # {}
                ELSE raced[j] \/ j \in Racing(i)]
          /\ served' = [served EXCEPT ![i] = None]
          /\ current_token' = [current_token EXCEPT ![i] = cur]
          /\ IF wall < 0
             THEN /\ ret' = [ret EXCEPT ![i] = Returned("acquire", From_SystemTimeError)]
                  /\ UNCHANGED <<pc, req>>
             ELSE /\ req' = [req EXCEPT ![i] = Some(
                        [op |-> "acquire",
                         key |-> partition_key_value[i],
                         new_token |-> tok,
                         lease |-> to_string(as_secs(duration[i])),
                         ttl |-> to_string(wall + ttl_value),
                         cond_current_token |-> cur])]
                  /\ pc' = [pc EXCEPT ![i] = "acquire_wait"]
                  /\ ret' = [ret EXCEPT ![i] = None]
    /\ UNCHANGED <<table, partition_key_value, duration, resp, lease_start, lease_token, now>>

\* An Instant read a tick too early
start_too_early == now - 1

\* "After this point the lock clock starts": let start = Instant::now()
start == now

\* acquire_lock after `.sync()?`: an error returns; otherwise the lease clock
\* starts and the new token is recorded.
AcquireLock_return(i) ==
    /\ UNCHANGED <<left, past_tokens>>
    /\ pc[i] = "acquire_wait"
    /\ is_some(resp[i])
    /\ recovery' = [recovery EXCEPT ![i] =
            IF recovery[i] = "retry_served" THEN "retry_returned"
            ELSE IF From_UpdateItemError(unwrap(resp[i]).status) = LockAlreadyAcquired
            THEN "failed" ELSE "no"]
    /\ pc' = [pc EXCEPT ![i] = "idle"]
    /\ resp' = [resp EXCEPT ![i] = None]
    /\ IF unwrap(resp[i]).status = Ok
       THEN /\ lease_start' = [lease_start EXCEPT ![i] = Some(start)]
            /\ current_token' = [current_token EXCEPT ![i] = new_token[i]]
            /\ lease_token' = [lease_token EXCEPT ![i] = new_token[i]]
            /\ ret' = [ret EXCEPT ![i] = Returned("acquire", Ok)]
       ELSE /\ ret' = [ret EXCEPT ![i] =
                        Returned("acquire", From_UpdateItemError(unwrap(resp[i]).status))]
            /\ UNCHANGED <<current_token, lease_start, lease_token>>
    /\ new_token' = [new_token EXCEPT ![i] = EmptyString]
    /\ raced' = [raced EXCEPT ![i] = FALSE]
    /\ UNCHANGED <<table, partition_key_value, duration, req, entry_token, served, now, next_uuid>>

\* ------------------------------------------------------------------ refresh_lock
ConsistentRead == {None, Some(FALSE), Some(TRUE)}

\* refresh_lock up to the request
RefreshLock_call(i, consistent_read) ==
    /\ UNCHANGED <<left, past_tokens>>
    /\ recovery' = [recovery EXCEPT ![i] =
            IF recovery[i] = "failed" THEN "refresh_sent" ELSE "no"]
    /\ pc[i] = "idle"
    /\ req' = [req EXCEPT ![i] = Some(
            [op |-> "refresh",
             key |-> partition_key_value[i],
             consistent_read |-> consistent_read])]
    /\ pc' = [pc EXCEPT ![i] = "refresh_wait"]
    /\ ret' = [ret EXCEPT ![i] = None]
    /\ entry_token' = [entry_token EXCEPT ![i] = current_token[i]]
    /\ served' = [served EXCEPT ![i] = None]
    /\ UNCHANGED <<raced, table, partition_key_value, current_token, duration, new_token, resp, lease_start,
                   lease_token, now, next_uuid>>

\* A refresh that adopts the stored token only on the first run
refreshed_token_first_only(cur, item) ==
    IF is_some(item) /\ is_some(Attr(item, token_field_name)) /\ is_empty(cur)
    THEN unwrap(Attr(item, token_field_name))
    ELSE cur

\* A refresh that clears the token when the item has none
refreshed_token_clears(cur, item) ==
    IF is_some(item) /\ is_some(Attr(item, token_field_name))
    THEN unwrap(Attr(item, token_field_name))
    ELSE EmptyString

\* A refresh that forgets the token
refreshed_token_forgets(cur, item) == EmptyString

\* A refresh that reads the item and keeps the token it had
refreshed_token_keeps(cur, item) == cur

\* "A lock item was found": the token attribute of the item, when there is one,
\* becomes the current token
refreshed_token(cur, item) ==
    IF is_some(item) /\ is_some(Attr(item, token_field_name))
    THEN unwrap(Attr(item, token_field_name))
    ELSE cur

\* refresh_lock after `.sync()?`
RefreshLock_return(i) ==
    /\ UNCHANGED <<left, past_tokens>>
    /\ UNCHANGED recovery
    /\ pc[i] = "refresh_wait"
    /\ is_some(resp[i])
    /\ pc' = [pc EXCEPT ![i] = "idle"]
    /\ resp' = [resp EXCEPT ![i] = None]
    /\ IF unwrap(resp[i]).status = Ok
       THEN LET output == unwrap(resp[i])
            IN /\ current_token' = [current_token EXCEPT ![i] =
                        refreshed_token(current_token[i], output.item)]
               /\ ret' = [ret EXCEPT ![i] = Returned("refresh", Ok)]
       ELSE /\ ret' = [ret EXCEPT ![i] =
                        Returned("refresh", From_GetItemError(unwrap(resp[i]).status))]
            /\ UNCHANGED current_token
    /\ UNCHANGED <<table, partition_key_value, duration, new_token, req, entry_token, raced, served,
                   lease_start, lease_token, now, next_uuid>>

\* ------------------------------------------------------------------ release_lock
\* release_lock up to the request; the caller gives its lease up
ReleaseLock_call(i) ==
    /\ UNCHANGED <<left, past_tokens>>
    /\ recovery' = [recovery EXCEPT ![i] = "no"]
    /\ pc[i] = "idle"
    /\ req' = [req EXCEPT ![i] = Some(
            [op |-> "release",
             key |-> partition_key_value[i],
             cond_current_token |-> current_token[i]])]
    /\ pc' = [pc EXCEPT ![i] = "release_wait"]
    /\ ret' = [ret EXCEPT ![i] = None]
    /\ entry_token' = [entry_token EXCEPT ![i] = current_token[i]]
    /\ served' = [served EXCEPT ![i] = None]
    /\ lease_start' = [lease_start EXCEPT ![i] = None]
    /\ lease_token' = [lease_token EXCEPT ![i] = EmptyString]
    /\ UNCHANGED <<table, partition_key_value, current_token, duration, new_token,
                   resp, raced, now, next_uuid>>

\* release_lock after `.sync()?`: clear the fence token
ReleaseLock_return(i) ==
    /\ UNCHANGED <<left, past_tokens>>
    /\ UNCHANGED recovery
    /\ pc[i] = "release_wait"
    /\ is_some(resp[i])
    /\ pc' = [pc EXCEPT ![i] = "idle"]
    /\ resp' = [resp EXCEPT ![i] = None]
    /\ IF unwrap(resp[i]).status = Ok
       THEN /\ current_token' = [current_token EXCEPT ![i] = EmptyString]
            /\ ret' = [ret EXCEPT ![i] = Returned("release", Ok)]
       ELSE /\ ret' = [ret EXCEPT ![i] =
                        Returned("release", From_UpdateItemError(unwrap(resp[i]).status))]
            /\ UNCHANGED current_token
    /\ UNCHANGED <<lease_start, lease_token>>
    /\ UNCHANGED <<table, partition_key_value, duration, new_token, req, entry_token, raced, served, now, next_uuid>>

\* ------------------------------------------------------------------ the store at work
\* What a request found: whether the item existed, and its token attribute,
\* and the instant at which the store served it.
Found(item) ==
    Some([item |-> is_some(item), token |-> Attr(item, token_field_name), at |-> now])

\* update_item served: the condition expression decides, atomically with the update
UpdateItem(i) ==
    /\ UNCHANGED left
    /\ is_some(req[i])
    /\ unwrap(req[i]).op \in {"acquire", "release"}
    /\ LET r == unwrap(req[i])
           item == table[r.key]
           holds == IF r.op = "acquire"
                    THEN ACQUIRE_CONDITION(item, r.cond_current_token)
                    ELSE RELEASE_CONDITION(item, r.cond_current_token)
           updated == IF r.op = "acquire"
                      THEN ACQUIRE_UPDATE(item, r.new_token, r.lease, r.ttl)
                      ELSE RELEASE_UPDATE(item)
       IN /\ table' = [table EXCEPT ![r.key] = IF holds THEN updated ELSE item]
          /\ resp' = [resp EXCEPT ![i] =
                Some([status |-> IF holds THEN Ok ELSE ConditionalCheckFailed,
                      item |-> None])]
    /\ req' = [req EXCEPT ![i] = None]
    /\ served' = [served EXCEPT ![i] = Found(table[unwrap(req[i]).key])]
    /\ recovery' = [j \in Procs |->
            IF j = i
            THEN IF recovery[i] = "retry_sent" THEN "retry_served" ELSE recovery[i]
            ELSE IF /\ table' # table
                    /\ partition_key_value[j] = unwrap(req[i]).key
                    /\ recovery[j] \in {"refresh_read", "retry_sent"}
            THEN "no" ELSE recovery[j]]
    /\ past_tokens' =
            LET stored == Attr(table[unwrap(req[i]).key], token_field_name)
            IN IF table' # table /\ is_some(stored)
               THEN past_tokens \cup {unwrap(stored)} ELSE past_tokens
    /\ UNCHANGED <<partition_key_value, current_token, duration, pc, new_token, ret,
                   entry_token, raced, lease_start, lease_token, now, next_uuid>>

\* A read that does not look at the key: it returns an item of the table,
\* whichever resource it belongs to.
GetItem_any_key(i) ==
    /\ UNCHANGED <<left, past_tokens>>
    /\ recovery' = [recovery EXCEPT ![i] =
            IF recovery[i] = "refresh_sent" THEN "refresh_read" ELSE recovery[i]]
    /\ is_some(req[i])
    /\ unwrap(req[i]).op = "refresh"
    /\ \E k \in Keys :
        /\ resp' = [resp EXCEPT ![i] = Some([status |-> Ok, item |-> table[k]])]
        /\ served' = [served EXCEPT ![i] = Found(table[k])]
    /\ req' = [req EXCEPT ![i] = None]
    /\ UNCHANGED <<table, partition_key_value, current_token, duration, pc, new_token, ret,
                   entry_token, raced, lease_start, lease_token, now, next_uuid>>

\* get_item served
GetItem(i) ==
    /\ UNCHANGED <<left, past_tokens>>
    /\ recovery' = [recovery EXCEPT ![i] =
            IF recovery[i] = "refresh_sent" THEN "refresh_read" ELSE recovery[i]]
    /\ is_some(req[i])
    /\ unwrap(req[i]).op = "refresh"
    /\ resp' = [resp EXCEPT ![i] =
            Some([status |-> Ok, item |-> table[unwrap(req[i]).key]])]
    /\ req' = [req EXCEPT ![i] = None]
    /\ served' = [served EXCEPT ![i] = Found(table[unwrap(req[i]).key])]
    /\ UNCHANGED <<table, partition_key_value, current_token, duration, pc, new_token, ret,
                   entry_token, raced, lease_start, lease_token, now, next_uuid>>

\* A refresh that sends its read again when the answer does not come
ProviderFailure_retries(i) ==
    /\ pc[i] = "refresh_wait"
    /\ is_none(req[i])
    /\ req' = [req EXCEPT ![i] = Some(
            [op |-> "refresh",
             key |-> partition_key_value[i],
             consistent_read |-> None])]
    /\ resp' = [resp EXCEPT ![i] = None]
    /\ UNCHANGED <<table, partition_key_value, current_token, duration, pc, new_token,
                   ret, entry_token, raced, served, lease_start, lease_token, now,
                   next_uuid, recovery, past_tokens, left>>

\* The call fails at the provider level (with_timeout expires, the transport
\* breaks): `.sync()?` returns the converted error. The request is lost before
\* the store serves it, or its answer is lost afterwards.
ProviderFailure(i) ==
    /\ UNCHANGED <<left, past_tokens>>
    /\ recovery' = [recovery EXCEPT ![i] = "no"]
    /\ pc[i] \in {"acquire_wait", "refresh_wait", "release_wait"}
    /\ req' = [req EXCEPT ![i] = None]
    /\ resp' = [resp EXCEPT ![i] = None]
    /\ pc' = [pc EXCEPT ![i] = "idle"]
    /\ new_token' = [new_token EXCEPT ![i] = EmptyString]
    /\ ret' = [ret EXCEPT ![i] =
            IF pc[i] = "acquire_wait"
            THEN Returned("acquire", From_UpdateItemError(HttpDispatch))
            ELSE IF pc[i] = "release_wait"
            THEN Returned("release", From_UpdateItemError(HttpDispatch))
            ELSE Returned("refresh", From_GetItemError(HttpDispatch))]
    /\ served' = [served EXCEPT ![i] = None]
    /\ raced' = [raced EXCEPT ![i] = FALSE]
    /\ UNCHANGED <<table, partition_key_value, current_token, duration, entry_token,
                   lease_start, lease_token, now, next_uuid>>

\* Time passes
Tick ==
    /\ UNCHANGED <<left, past_tokens>>
    /\ UNCHANGED recovery
    /\ now < MaxTime
    /\ now' = now + 1
    /\ UNCHANGED <<table, partition_key_value, current_token, duration, pc, new_token, req, resp, ret,
                   entry_token, raced, served, lease_start, lease_token, next_uuid>>

\* One step of a driver or of the store, for the inputs the callers choose from
Step(walls, reads) ==
    \/ \E i \in Procs, wall \in walls : AcquireLock_call(i, wall)
    \/ \E i \in Procs : AcquireLock_return(i)
    \/ \E i \in Procs, consistent_read \in reads : RefreshLock_call(i, consistent_read)
    \/ \E i \in Procs : RefreshLock_return(i)
    \/ \E i \in Procs : ReleaseLock_call(i)
    \/ \E i \in Procs : ReleaseLock_return(i)
    \/ \E i \in Procs : UpdateItem(i)
    \/ \E i \in Procs : GetItem(i)
    \/ \E i \in Procs : ProviderFailure(i)

\* The drivers and the store with every input, the clock standing still
Next == Step(WallClock, ConsistentRead)
Spec == Init /\ [][Next]_vars

\* The drivers constructed with different partition key values: each instance
\* works on a resource of its own in the same table.
InitKeys ==
    /\ table = [k \in Keys |-> None]
    /\ partition_key_value = [i \in Procs |-> IF i = "A" THEN "singleton" ELSE "other"]
    /\ current_token = [i \in Procs |-> EmptyString]
    /\ duration \in [Procs -> Durations]
    /\ pc = [i \in Procs |-> "idle"]
    /\ new_token = [i \in Procs |-> EmptyString]
    /\ req = [i \in Procs |-> None]
    /\ resp = [i \in Procs |-> None]
    /\ ret = [i \in Procs |-> None]
    /\ entry_token = [i \in Procs |-> EmptyString]
    /\ raced = [i \in Procs |-> FALSE]
    /\ served = [i \in Procs |-> None]
    /\ lease_start = [i \in Procs |-> None]
    /\ lease_token = [i \in Procs |-> EmptyString]
    /\ now = 0
    /\ next_uuid = 0
    /\ recovery = [i \in Procs |-> "no"]
    /\ past_tokens = {}
    /\ left = [i \in Procs |-> None]
SpecKeys == InitKeys /\ [][Next]_vars

\* The same with time passing (the wall clock and the read consistency, which
\* the lease clock does not depend on, are fixed)
NextTimed == Step({0}, {Some(FALSE)}) \/ Tick
SpecTimed == Init /\ [][NextTimed]_vars

\* ------------------------------------------------------------------ remaining
\* remaining(instant) called by instance i with an Instant it took earlier:
\* a read of self.duration and of the monotonic clock, nothing else
Remaining(i, instant) ==
    /\ pc[i] = "idle"
    /\ left' = [left EXCEPT ![i] =
            Some([elapsed |-> elapsed(instant), out |-> remaining(i, instant)])]
    /\ UNCHANGED <<table, partition_key_value, current_token, duration, pc, new_token,
                   req, resp, ret, entry_token, raced, served, lease_start,
                   lease_token, now, next_uuid, recovery, past_tokens>>

\* The lease durations whose end the clock reaches
LeaseDurations == 1..MaxTime

\* Instance A has acquired the lock at instant 0 and its call has returned;
\* the handles have any of the lease durations.
InitRemaining ==
    /\ now = 0
    /\ duration \in [Procs -> LeaseDurations]
    /\ table = [k \in Keys |->
            IF k = "singleton"
            THEN ACQUIRE_UPDATE(None, Uuid(1), to_string(as_secs(duration["A"])),
                                to_string(0 + ttl_value))
            ELSE None]
    /\ partition_key_value = [i \in Procs |-> "singleton"]
    /\ current_token = [i \in Procs |-> IF i = "A" THEN Uuid(1) ELSE EmptyString]
    /\ pc = [i \in Procs |-> "idle"]
    /\ new_token = [i \in Procs |-> EmptyString]
    /\ req = [i \in Procs |-> None]
    /\ resp = [i \in Procs |-> None]
    /\ ret = [i \in Procs |-> IF i = "A" THEN Returned("acquire", Ok) ELSE None]
    /\ entry_token = [i \in Procs |-> EmptyString]
    /\ raced = [i \in Procs |-> FALSE]
    /\ served = [i \in Procs |-> IF i = "A" THEN Found(None) ELSE None]
    /\ lease_start = [i \in Procs |-> IF i = "A" THEN Some(0) ELSE None]
    /\ lease_token = [i \in Procs |-> IF i = "A" THEN Uuid(1) ELSE EmptyString]
    /\ next_uuid = 1
    /\ recovery = [i \in Procs |-> "no"]
    /\ past_tokens = {}
    /\ left = [i \in Procs |-> None]

\* The clock and the calls of remaining, with instants taken since the start
NextRemaining ==
    \/ Tick
    \/ \E i \in Procs, instant \in 0..now : Remaining(i, instant)
SpecRemaining == InitRemaining /\ [][NextRemaining]_vars

\* ------------------------------------------------------------------ properties
SameKey(i, j) == partition_key_value[i] = partition_key_value[j]
\* The token attribute the store holds for the resource of instance i
StoredToken(i) == Attr(table[partition_key_value[i]], token_field_name)
\* The call of instance i that returned last
Did(i, op) == is_some(ret[i]) /\ unwrap(ret[i]).op = op
Result(i) == unwrap(ret[i]).res
\* The store answered that call
Answered(i) == is_some(served[i])
FoundToken(i) == unwrap(served[i]).token
FoundItem(i) == unwrap(served[i]).item
\* The step in which the store serves the request of instance i
Serves(i) == is_some(req[i]) /\ is_none(req'[i]) /\ is_some(resp'[i])

\* Instance i obtained a lease by a successful acquire, has not released it, and
\* remaining(lease_start) is not none.
HoldsLease(i) ==
    /\ is_some(lease_start[i])
    /\ is_some(remaining(i, unwrap(lease_start[i])))

C2_ExactlyOneWins ==
    \A i, j \in Procs :
        (/\ i # j /\ SameKey(i, j)
         /\ pc[i] = "acquire_wait" /\ is_some(resp[i]) /\ Answered(i)
         /\ pc[j] = "acquire_wait" /\ is_some(resp[j]) /\ Answered(j)
         /\ raced[i] /\ raced[j])
        => \E w, l \in {i, j} :
              /\ w # l
              /\ unwrap(resp[w]).status = Ok
              /\ unwrap(resp[l]).status # Ok
              /\ From_UpdateItemError(unwrap(resp[l]).status) = LockAlreadyAcquired

\* Both calls are in flight, both served, on a resource that had no token
C2_Witness ==
    \E i, j \in Procs :
        /\ i # j /\ SameKey(i, j)
        /\ pc[i] = "acquire_wait" /\ is_some(resp[i]) /\ Answered(i)
        /\ pc[j] = "acquire_wait" /\ is_some(resp[j]) /\ Answered(j)
        /\ raced[i] /\ raced[j]
        /\ unwrap(resp[j]).status = ConditionalCheckFailed

\* C3: an acquire that returns LockAlreadyAcquired leaves current_token as it
\* was when the call was entered, also when it was empty.
C3_FailedAcquireKeepsToken ==
    \A i \in Procs :
        (Did(i, "acquire") /\ Result(i) = LockAlreadyAcquired)
        => current_token[i] = entry_token[i]

\* C4: on a resource with no item, an acquire the store answers is granted,
\* whatever current_token was when the call was entered.
C4_FirstAcquireSucceeds ==
    \A i \in Procs :
        (Did(i, "acquire") /\ Answered(i) /\ ~FoundItem(i)) => Result(i) = Ok

\* An acquire entered with a token of its own was granted on a resource with no item
C4_Witness ==
    \E i \in Procs :
        /\ Did(i, "acquire") /\ Answered(i) /\ ~FoundItem(i)
        /\ ~is_empty(entry_token[i])
        /\ Result(i) = Ok

\* C5: an acquire served while a token is stored that differs from the token the
\* caller believed current returns LockAlreadyAcquired, and serving it leaves
\* the table as it was.
C5_Contended(i) ==
    /\ Did(i, "acquire") /\ Answered(i)
    /\ is_some(FoundToken(i)) /\ unwrap(FoundToken(i)) # entry_token[i]
C5_ContendedAcquire ==
    /\ [](\A i \in Procs : C5_Contended(i) => Result(i) = LockAlreadyAcquired)
    /\ [][\A i \in Procs :
            (/\ Serves(i) /\ unwrap(req[i]).op = "acquire"
             /\ is_some(StoredToken(i))
             /\ unwrap(StoredToken(i)) # entry_token[i])
            => table' = table]_vars

\* A caller with a stale token of its own was refused
C5_Witness ==
    \E i \in Procs :
        /\ C5_Contended(i) /\ ~is_empty(entry_token[i])
        /\ Result(i) = LockAlreadyAcquired

\* C6: a release the store answers succeeds exactly when a token was stored and
\* equal to the caller's current_token; serving it then removes the token
\* attribute, and the successful call leaves current_token empty.
C6_Release ==
    /\ [](\A i \in Procs :
            (Did(i, "release") /\ Answered(i)) =>
                /\ (Result(i) = Ok) <=> (FoundToken(i) = Some(entry_token[i]))
                /\ (Result(i) = Ok) => is_empty(current_token[i]))
    /\ [][\A i \in Procs :
            (/\ Serves(i) /\ unwrap(req[i]).op = "release"
             /\ StoredToken(i) = Some(current_token[i]))
            => is_none(Attr(table'[partition_key_value[i]], token_field_name))]_vars

\* A release was granted and cleared the token
C6_Witness ==
    \E i \in Procs :
        /\ Did(i, "release") /\ Answered(i) /\ Result(i) = Ok
        /\ ~is_empty(entry_token[i]) /\ is_empty(current_token[i])
        /\ is_none(StoredToken(i))

\* C7: a release served while the stored token differs from the caller's
\* current_token returns LockAlreadyAcquired and leaves current_token and the
\* table as they were.
C7_Superseded(i) ==
    /\ Did(i, "release") /\ Answered(i)
    /\ is_some(FoundToken(i)) /\ unwrap(FoundToken(i)) # entry_token[i]
C7_SupersededRelease ==
    /\ [](\A i \in Procs :
            C7_Superseded(i) =>
                /\ Result(i) = LockAlreadyAcquired
                /\ current_token[i] = entry_token[i])
    /\ [][\A i \in Procs :
            (/\ Serves(i) /\ unwrap(req[i]).op = "release"
             /\ is_some(StoredToken(i))
             /\ unwrap(StoredToken(i)) # current_token[i])
            => table' = table]_vars

\* An instance that had acquired was refused the release after another one took over
C7_Witness ==
    \E i, j \in Procs :
        /\ i # j /\ C7_Superseded(i) /\ ~is_empty(entry_token[i])
        /\ FoundToken(i) = Some(lease_token[j])
        /\ Result(i) = LockAlreadyAcquired

\* C8: the acquire the store serves next after a release (the item is there,
\* its token attribute removed) is granted, whoever sends it and whatever
\* token it believes current.
C8_AcquireAfterRelease ==
    \A i \in Procs :
        (Did(i, "acquire") /\ Answered(i) /\ FoundItem(i) /\ is_none(FoundToken(i)))
        => Result(i) = Ok

\* An instance whose earlier attempt had failed is granted the lock after the release
C8_Witness ==
    \E i \in Procs :
        /\ Did(i, "acquire") /\ Answered(i) /\ FoundItem(i) /\ is_none(FoundToken(i))
        /\ ~is_empty(entry_token[i])
        /\ Result(i) = Ok /\ StoredToken(i) = Some(current_token[i])

\* C9: a refresh whose read found a token stored returns Ok with current_token
\* set to exactly that token.
C9_RefreshAdopts ==
    \A i \in Procs :
        (Did(i, "refresh") /\ Answered(i) /\ is_some(FoundToken(i)))
        => (Result(i) = Ok /\ current_token[i] = unwrap(FoundToken(i)))

\* An instance with a token of its own adopted the token another one acquired
C9_Witness ==
    \E i, j \in Procs :
        /\ i # j /\ Did(i, "refresh") /\ Answered(i)
        /\ FoundToken(i) = Some(lease_token[j])
        /\ ~is_empty(entry_token[i]) /\ entry_token[i] # lease_token[j]
        /\ current_token[i] = lease_token[j]

\* C10: a refresh whose read found no item, or an item with no token attribute,
\* returns Ok and leaves current_token as it was.
C10_RefreshNoToken ==
    \A i \in Procs :
        (Did(i, "refresh") /\ Answered(i) /\ is_none(FoundToken(i)))
        => (Result(i) = Ok /\ current_token[i] = entry_token[i])

\* A non-empty current_token survived a refresh that found an item without token
C10_Witness ==
    \E i \in Procs :
        /\ Did(i, "refresh") /\ Answered(i) /\ is_none(FoundToken(i))
        /\ FoundItem(i) /\ ~is_empty(current_token[i])

\* What the last call of remaining by instance i returned, and for which elapsed time
Left(i) == unwrap(left[i])

\* C11: remaining returns none for every elapsed time greater than or equal to
\* the configured duration, the elapsed time equal to the duration included.
C11_NoneFromDuration ==
    \A i \in Procs :
        (is_some(left[i]) /\ Left(i).elapsed >= duration[i]) => is_none(Left(i).out)

\* C12: for an elapsed time e with 0 < e < duration, remaining returns exactly
\* duration - e, less than the duration; a call of remaining sends no request
\* and changes neither current_token nor the table.
C12_RemainingExact ==
    /\ [](\A i \in Procs :
            (is_some(left[i]) /\ 0 < Left(i).elapsed /\ Left(i).elapsed < duration[i])
            => /\ Left(i).out = Some(duration[i] - Left(i).elapsed)
               /\ unwrap(Left(i).out) < duration[i])
    /\ [][left' # left =>
            /\ table' = table /\ current_token' = current_token
            /\ req' = req /\ resp' = resp /\ pc' = pc]_vars

\* The holder asked in the middle of its lease, the token stored
C12_Witness ==
    \E i \in Procs :
        /\ is_some(left[i]) /\ 0 < Left(i).elapsed /\ Left(i).elapsed < duration[i]
        /\ is_some(Left(i).out)
        /\ StoredToken(i) = Some(current_token[i])

\* C13: after an acquire of instance i failed with LockAlreadyAcquired, i
\* refreshes and retries acquire; when no other instance has written the record
\* between the read of the refresh and the write of the retry, the store grants
\* the retry and the call returns Ok.
C13_RefreshThenRetry ==
    \A i \in Procs :
        /\ (recovery[i] = "retry_served" /\ is_some(resp[i]))
                => unwrap(resp[i]).status = Ok
        /\ recovery[i] = "retry_returned" => (Did(i, "acquire") /\ Result(i) = Ok)

\* The retry took the lock over from the instance whose token was stored
C13_Witness ==
    \E i \in Procs :
        /\ recovery[i] = "retry_returned" /\ Did(i, "acquire") /\ Result(i) = Ok
        /\ Answered(i) /\ is_some(FoundToken(i))
        /\ StoredToken(i) = Some(current_token[i])

\* C14: the lease-start instant a successful acquire returns is never earlier
\* than the instant at which the store completed the conditional write.
C14_LeaseStartsAfterGrant ==
    \A i \in Procs :
        (Did(i, "acquire") /\ Result(i) = Ok /\ Answered(i))
        => /\ is_some(lease_start[i])
           /\ unwrap(lease_start[i]) >= unwrap(served[i]).at
           /\ current_token[i] = lease_token[i]

\* Time passed between the grant and the return of the call
C14_Witness ==
    \E i \in Procs :
        /\ Did(i, "acquire") /\ Result(i) = Ok /\ Answered(i)
        /\ unwrap(served[i]).at > 0
        /\ unwrap(lease_start[i]) > unwrap(served[i]).at

\* The step in which a call of instance i comes back without an answer of the store
FailsAtProvider(i) == pc[i] # "idle" /\ pc'[i] = "idle" /\ is_none(served'[i])
\* The step in which acquire_lock of instance i stops at the wall clock read
FailsAtClock(i) == pc[i] = "idle" /\ pc'[i] = "idle" /\ next_uuid' # next_uuid
                   /\ new_token'[i] # new_token[i]
\* The operation a call in progress belongs to
OpOf(p) == IF p = "acquire_wait" THEN "acquire"
           ELSE IF p = "refresh_wait" THEN "refresh" ELSE "release"

\* C15: a store call of acquire, refresh or release that fails otherwise than on
\* its condition returns ProviderError; acquire failing to read the wall clock
\* returns UnhandledError; every call returns Ok or an error of one of the three
\* kinds, LockAlreadyAcquired only when the store refused the condition.
C15_ErrorKinds ==
    /\ [](\A i \in Procs :
            is_some(ret[i]) =>
                /\ Result(i) \in DynaErrorKind \cup {Ok}
                /\ Result(i) = LockAlreadyAcquired =>
                        (Answered(i) /\ ~Did(i, "refresh")))
    /\ [][\A i \in Procs :
            /\ FailsAtProvider(i) =>
                    ret'[i] = Returned(OpOf(pc[i]), ProviderError)
            /\ FailsAtClock(i) =>
                    ret'[i] = Returned("acquire", UnhandledError)]_vars

\* One instance's refresh failed at the provider, the other's acquire at the clock
C15_Witness ==
    \E i, j \in Procs :
        /\ Did(i, "refresh") /\ ~Answered(i) /\ Result(i) = ProviderError
        /\ Did(j, "acquire") /\ Result(j) = UnhandledError

\* The request of instance i is an op on key k, served in this step
ServesOn(i, op, k) ==
    Serves(i) /\ unwrap(req[i]).op = op /\ unwrap(req[i]).key = k

\* C16: the item of a resource changes only in a step that serves an acquire
\* while no token is stored or the stored token is the caller's current_token,
\* or a release while the stored token is the caller's current_token.
C16_OnlyConditionalWrites ==
    [][\A k \in Keys :
        table'[k] # table[k] =>
            \E i \in Procs :
                \/ /\ ServesOn(i, "acquire", k)
                   /\ \/ is_none(Attr(table[k], token_field_name))
                      \/ Attr(table[k], token_field_name) = Some(current_token[i])
                \/ /\ ServesOn(i, "release", k)
                   /\ Attr(table[k], token_field_name) = Some(current_token[i])]_vars

\* An acquire replaced the token that was stored
C16_Witness ==
    \E i \in Procs :
        /\ Did(i, "acquire") /\ Answered(i) /\ Result(i) = Ok
        /\ is_some(FoundToken(i)) /\ is_some(StoredToken(i))
        /\ StoredToken(i) # FoundToken(i)

\* The step in which the store grants the acquire of instance i
Grants(i) ==
    /\ ServesOn(i, "acquire", partition_key_value[i])
    /\ unwrap(resp'[i]).status = Ok
\* The step in which acquire_lock of instance i returns Ok
ReturnsAcquired(i) ==
    /\ pc[i] = "acquire_wait" /\ pc'[i] = "idle"
    /\ ret'[i] = Returned("acquire", Ok)

\* C17: the write of a successful acquire stores the token generated for that
\* attempt and the handle's duration in whole seconds; the call returns with
\* current_token equal to that token; no step changes a handle's duration.
C17_AcquireEffect ==
    /\ [][\A i \in Procs :
            Grants(i) =>
                /\ Attr(table'[partition_key_value[i]], token_field_name)
                        = Some(new_token[i])
                /\ Attr(table'[partition_key_value[i]], duration_field_name)
                        = Some(to_string(as_secs(duration[i])))]_vars
    /\ [][\A i \in Procs :
            ReturnsAcquired(i) =>
                (current_token'[i] = new_token[i] /\ ~is_empty(new_token[i]))]_vars
    /\ [][duration' = duration]_vars

\* A renewal has returned: the record holds the new token and the lease seconds
C17_Witness ==
    \E i \in Procs :
        /\ Did(i, "acquire") /\ Result(i) = Ok /\ Answered(i) /\ FoundItem(i)
        /\ StoredToken(i) = Some(current_token[i])
        /\ Attr(table[partition_key_value[i]], duration_field_name)
                = Some(to_string(as_secs(duration[i])))

\* The tokens drawn so far
Drawn == {Uuid(n) : n \in 1..next_uuid}

\* C18: every acquire attempt draws a token never drawn before; a token that was
\* replaced or removed in the store is never the stored token again; the store
\* refuses the acquire or release of an instance whose current_token is such a
\* token while a token is stored, and leaves the record as it is.
C18_TokensNeverReturn ==
    /\ [](\A k \in Keys :
            is_some(Attr(table[k], token_field_name))
            => unwrap(Attr(table[k], token_field_name)) \notin past_tokens)
    /\ [][\A i \in Procs :
            new_token'[i] # new_token[i] =>
                (is_empty(new_token'[i]) \/ new_token'[i] \notin Drawn)]_vars
    /\ [][\A i \in Procs :
            (/\ Serves(i) /\ unwrap(req[i]).op \in {"acquire", "release"}
             /\ current_token[i] \in past_tokens
             /\ is_some(StoredToken(i)))
            => /\ unwrap(resp'[i]).status = ConditionalCheckFailed
               /\ table' = table]_vars

\* An instance that held the lock and was superseded is refused with its old token
C18_Witness ==
    \E i \in Procs :
        /\ is_some(ret[i]) /\ ~Did(i, "refresh") /\ Answered(i)
        /\ entry_token[i] \in past_tokens /\ current_token[i] = entry_token[i]
        /\ is_some(FoundToken(i)) /\ is_some(StoredToken(i))
        /\ Result(i) = LockAlreadyAcquired

\* C19: an acquire of instance i served while the stored token is i's
\* current_token is granted and stores the newly drawn token in its place; the
\* call returns Ok with current_token that new token and a lease-start instant
\* read at the return.
C19_Renewal ==
    /\ [](\A i \in Procs :
            (Did(i, "acquire") /\ Answered(i) /\ FoundToken(i) = Some(entry_token[i]))
            => /\ Result(i) = Ok
               /\ current_token[i] # entry_token[i]
               /\ current_token[i] = lease_token[i]
               /\ is_some(lease_start[i])
               /\ unwrap(lease_start[i]) >= unwrap(served[i]).at)
    /\ [][\A i \in Procs :
            (/\ ServesOn(i, "acquire", partition_key_value[i])
             /\ StoredToken(i) = Some(current_token[i]))
            => /\ unwrap(resp'[i]).status = Ok
               /\ new_token[i] # current_token[i]
               /\ Attr(table'[partition_key_value[i]], token_field_name)
                    = Some(new_token[i])]_vars
    /\ [][\A i \in Procs : ReturnsAcquired(i) => lease_start'[i] = Some(now)]_vars

\* The holder renewed later than it first acquired, and its new token is stored
C19_Witness ==
    \E i \in Procs :
        /\ Did(i, "acquire") /\ Answered(i) /\ FoundToken(i) = Some(entry_token[i])
        /\ Result(i) = Ok /\ StoredToken(i) = Some(current_token[i])
        /\ lease_start[i] = Some(now) /\ now > 0
        /\ entry_token[i] \in past_tokens

\* A step of refresh_lock of instance i: the call, its read being served, the return
RefreshStep(i) ==
    \/ pc[i] = "idle" /\ pc'[i] = "refresh_wait"
    \/ pc[i] = "refresh_wait" /\ pc'[i] = "idle"
    \/ Serves(i) /\ unwrap(req[i]).op = "refresh"

\* C20: no step of refresh changes the table; a refresh whose read the store
\* answered returns Ok whatever item was found; a refresh that did not return
\* Ok failed at the provider and returns ProviderError.
C20_RefreshReadsOnly ==
    /\ [][\A i \in Procs : RefreshStep(i) => table' = table]_vars
    /\ [](\A i \in Procs :
            Did(i, "refresh") =>
                /\ Answered(i) => Result(i) = Ok
                /\ Result(i) # Ok => (~Answered(i) /\ Result(i) = ProviderError))

\* One refresh found an item without token, the other one failed at the provider
C20_Witness ==
    \E i, j \in Procs :
        /\ Did(i, "refresh") /\ Answered(i) /\ Result(i) = Ok
        /\ FoundItem(i) /\ is_none(FoundToken(i))
        /\ Did(j, "refresh") /\ ~Answered(j) /\ Result(j) = ProviderError

\* The same item with another TTL attribute, or with none
AltTtl == {None, Some(to_string(0)), Some(to_string(ttl_value + 1))}
WithTtl(item, t) ==
    IF is_none(item) THEN item
    ELSE LET old == unwrap(item)
             names == IF is_some(t) THEN (DOMAIN old) \cup {ttl_field_name}
                      ELSE (DOMAIN old) \ {ttl_field_name}
         IN Some([a \in names |-> IF a = ttl_field_name THEN unwrap(t) ELSE old[a]])

\* C21: what the store answers to an acquire or a release, and the token a
\* refresh adopts, are the same for the item found and for the same item with
\* any other TTL attribute: results and tokens do not depend on the stored TTL.
C21_TtlIgnored ==
    [][\A i \in Procs, t \in AltTtl :
        Serves(i) =>
            LET r == unwrap(req[i])
                alt == WithTtl(table[r.key], t)
                granted == unwrap(resp'[i]).status = Ok
            IN /\ r.op = "acquire" =>
                    /\ granted <=> ACQUIRE_CONDITION(alt, r.cond_current_token)
                    /\ granted =>
                        Attr(table'[r.key], token_field_name) =
                        Attr(ACQUIRE_UPDATE(alt, r.new_token, r.lease, r.ttl), token_field_name)
               /\ r.op = "release" =>
                    /\ granted <=> RELEASE_CONDITION(alt, r.cond_current_token)
                    /\ granted =>
                        Attr(table'[r.key], token_field_name) =
                        Attr(RELEASE_UPDATE(alt), token_field_name)
               /\ r.op = "refresh" =>
                    /\ granted
                    /\ refreshed_token(current_token[i], unwrap(resp'[i]).item)
                        = refreshed_token(current_token[i], alt)]_vars

\* A contender was refused on a record that carries a TTL attribute
C21_Witness ==
    \E i \in Procs :
        /\ Did(i, "acquire") /\ Answered(i) /\ is_some(FoundToken(i))
        /\ Result(i) = LockAlreadyAcquired
        /\ is_some(Attr(table[partition_key_value[i]], ttl_field_name))

\* The step in which instance i enters acquire_lock, refresh_lock or release_lock
CallStarts(i) == pc[i] = "idle" /\ (pc'[i] # "idle" \/ FailsAtClock(i))
\* The step in which a request of instance i goes out
Sends(i) == is_some(req'[i]) /\ req'[i] # req[i]

\* C22 as stated: every call sends exactly one request, and a request goes out
\* only when a call is entered.
C22_ExactlyOneRequest ==
    [][\A i \in Procs :
        /\ CallStarts(i) => Sends(i)
        /\ Sends(i) => (CallStarts(i) /\ is_none(req[i]))]_vars

\* C22 as amended: a call sends one request when it is entered, except an
\* acquire that stops at the wall clock read, which sends none; no request goes
\* out at any other step, so none is sent again, and a call that has come back
\* leaves no request behind.
C22_AtMostOneRequest ==
    [][\A i \in Procs :
        /\ (CallStarts(i) /\ ~FailsAtClock(i)) => Sends(i)
        /\ FailsAtClock(i) => (~Sends(i) /\ is_none(req'[i]))
        /\ Sends(i) => (CallStarts(i) /\ is_none(req[i]))
        /\ (pc[i] # "idle" /\ pc'[i] = "idle") => is_none(req'[i])]_vars

\* One call came back after its request failed at the provider, another one
\* without having sent any
C22_Witness ==
    \E i, j \in Procs :
        /\ Did(i, "release") /\ ~Answered(i) /\ Result(i) = ProviderError
        /\ Did(j, "acquire") /\ Result(j) = UnhandledError
        /\ is_none(req[i]) /\ is_none(req[j])

\* No call is in progress on key k
Quiet(k) == \A i \in Procs : partition_key_value[i] = k => pc[i] = "idle"

\* C23 as stated makes a stored token the current_token of one of the
\* instances, the one whose acquire succeeded last, as soon as one has
\* acquired: when no call is in progress on the resource and an instance holds
\* a lease from a successful acquire, some instance's current_token is the stored token.
C23_StoredIsLastAcquirers ==
    \A k \in Keys :
        (/\ Quiet(k)
         /\ is_some(Attr(table[k], token_field_name))
         /\ \E i \in Procs : partition_key_value[i] = k /\ is_some(lease_start[i]))
        => \E i \in Procs :
                /\ partition_key_value[i] = k
                /\ current_token[i] = unwrap(Attr(table[k], token_field_name))

\* C23 as amended: while the stored token is the one the last successful
\* acquire of instance i wrote (i not having called release since), it is the
\* current_token of i, whatever calls have failed or refreshed since.
C23_StoredIsItsWriters ==
    \A i \in Procs :
        StoredToken(i) = Some(lease_token[i]) => current_token[i] = lease_token[i]

\* The holder has refreshed and the other instance's acquire has failed since
C23_Witness ==
    \E i, j \in Procs :
        /\ StoredToken(i) = Some(lease_token[i]) /\ current_token[i] = lease_token[i]
        /\ Did(i, "refresh") /\ Result(i) = Ok
        /\ i # j /\ Did(j, "acquire") /\ Result(j) = LockAlreadyAcquired

\* C24 as stated: a release never succeeds in removing the token that another
\* instance's successful acquire wrote (that instance not having called
\* release): only the writer of the stored token can release it.
C24_OnlyWriterReleases ==
    \A i, j \in Procs :
        (i # j /\ Did(i, "release") /\ Answered(i) /\ Result(i) = Ok)
        => FoundToken(i) # Some(lease_token[j])

\* C24 as amended: a release succeeds only for an instance whose current_token
\* is the stored token; an instance whose current_token is empty or was
\* replaced or removed in the store is refused while a token is stored and
\* changes nothing, so it cannot remove the holder's token without a refresh.
C24_OnlyBelieverReleases ==
    /\ [](\A i \in Procs :
            (Did(i, "release") /\ Answered(i) /\ Result(i) = Ok)
            => (FoundToken(i) = Some(entry_token[i]) /\ ~is_empty(entry_token[i])))
    /\ [][\A i \in Procs :
            (/\ ServesOn(i, "release", partition_key_value[i])
             /\ is_some(StoredToken(i))
             /\ (is_empty(current_token[i]) \/ current_token[i] \in past_tokens))
            => /\ unwrap(resp'[i]).status = ConditionalCheckFailed
               /\ table' = table]_vars

\* An instance that never acquired has refreshed and released the holder's token
C24_Witness ==
    \E i, j \in Procs :
        /\ i # j /\ next_uuid = 1 /\ is_some(lease_start[j])
        /\ Did(i, "release") /\ Answered(i) /\ Result(i) = Ok
        /\ FoundToken(i) = Some(lease_token[j])
        /\ is_none(StoredToken(j))

\* C25: an acquire the store answers while a token other than the caller's
\* current_token is stored returns LockAlreadyAcquired, at whatever time it is
\* served, and leaves the caller with a current_token that still differs from
\* the stored one, so that the same holds of its next retry; serving it changes
\* nothing in the store. No such acquire returns Ok.
C25_RetryNeverTakesOver ==
    /\ [](\A i \in Procs :
            (/\ Did(i, "acquire")
             /\ is_some(StoredToken(i))
             /\ Answered(i) /\ FoundToken(i) = StoredToken(i)
             /\ unwrap(StoredToken(i)) # entry_token[i])
            => /\ Result(i) = LockAlreadyAcquired
               /\ current_token[i] # unwrap(StoredToken(i))
               /\ is_none(lease_start[i]) \/ lease_token[i] # unwrap(StoredToken(i)))
    /\ [][\A i \in Procs :
            (/\ ServesOn(i, "acquire", partition_key_value[i])
             /\ is_some(StoredToken(i))
             /\ unwrap(StoredToken(i)) # current_token[i])
            => /\ unwrap(resp'[i]).status = ConditionalCheckFailed
               /\ StoredToken(i)' = StoredToken(i)
               /\ table' = table]_vars

\* A contender that was refused before retried after the holder's lease had run
\* out on the holder's own clock, and was refused again
C25_Witness ==
    \E i, j \in Procs :
        /\ i # j
        /\ is_some(lease_start[j]) /\ ~HoldsLease(j)
        /\ StoredToken(j) = Some(lease_token[j])
        /\ Did(i, "acquire") /\ Answered(i)
        /\ ~is_empty(entry_token[i]) /\ entry_token[i] \notin past_tokens
        /\ FoundToken(i) = Some(lease_token[j])
        /\ unwrap(served[i]).at > unwrap(lease_start[j]) + duration[j]
        /\ Result(i) = LockAlreadyAcquired

\* C26: a release called with an empty current_token never returns Ok; when the
\* store answers it the result is LockAlreadyAcquired, whether a token is
\* stored or not; current_token stays empty and serving the request changes
\* nothing in the store.
C26_EmptyRelease ==
    /\ [](\A i \in Procs :
            (Did(i, "release") /\ is_empty(entry_token[i]))
            => /\ Result(i) # Ok
               /\ Answered(i) => Result(i) = LockAlreadyAcquired
               /\ is_empty(current_token[i]))
    /\ [][\A i \in Procs :
            (/\ ServesOn(i, "release", partition_key_value[i])
             /\ is_empty(unwrap(req[i]).cond_current_token))
            => /\ unwrap(resp'[i]).status = ConditionalCheckFailed
               /\ table' = table]_vars

\* A release with an empty current_token was refused while a holder's token
\* was stored, and the token is still there
C26_Witness ==
    \E i, j \in Procs :
        /\ i # j
        /\ Did(i, "release") /\ is_empty(entry_token[i]) /\ Answered(i)
        /\ is_some(lease_start[j]) /\ FoundToken(i) = Some(lease_token[j])
        /\ Result(i) = LockAlreadyAcquired
        /\ is_empty(current_token[i])
        /\ StoredToken(j) = Some(lease_token[j])

\* C27: an acquire that returns ProviderError or UnhandledError leaves
\* current_token as it was when the call was entered, also when it was empty.
C27_ErrorKeepsToken ==
    \A i \in Procs :
        (Did(i, "acquire") /\ Result(i) \in {ProviderError, UnhandledError})
        => current_token[i] = entry_token[i]

\* Contents another resource's item may have: none, a released item, a token
AltItems ==
    {None, Some([a \in {duration_field_name} |-> to_string(0)])}
    \cup {Some([a \in {token_field_name} |-> Uuid(n)]) : n \in 1..MaxUuid}

\* C28: with the instances on different partition key values, a step changes
\* the item of a resource only by serving a request of the instance on that
\* resource; what the store answers to a request, and what it then stores, are
\* the same whatever the items of the other resources are; and no instance's
\* token is ever stored for, or adopted on, another resource.
C28_KeysIsolated ==
    /\ [](\A i, j \in Procs :
            (~SameKey(i, j) /\ ~is_empty(current_token[j]))
            => /\ StoredToken(i) # Some(current_token[j])
               /\ current_token[i] # current_token[j]
               /\ Answered(i) => FoundToken(i) # Some(current_token[j]))
    /\ [][\A k \in Keys :
            table'[k] # table[k] =>
                \E i \in Procs : Serves(i) /\ partition_key_value[i] = k]_vars
    /\ [][\A i \in Procs, k \in Keys, alt \in AltItems :
            (Serves(i) /\ k # partition_key_value[i]) =>
                LET r == unwrap(req[i])
                    other == [table EXCEPT ![k] = alt]
                    granted == unwrap(resp'[i]).status = Ok
                IN /\ r.key = partition_key_value[i]
                   /\ table'[k] = table[k]
                   /\ r.op = "acquire" =>
                        /\ granted <=> ACQUIRE_CONDITION(other[r.key], r.cond_current_token)
                        /\ granted =>
                            table'[r.key] = ACQUIRE_UPDATE(other[r.key], r.new_token, r.lease, r.ttl)
                   /\ r.op = "release" =>
                        /\ granted <=> RELEASE_CONDITION(other[r.key], r.cond_current_token)
                        /\ granted => table'[r.key] = RELEASE_UPDATE(other[r.key])
                   /\ r.op = "refresh" => unwrap(resp'[i]).item = other[r.key]]_vars

\* Two instances on different resources hold a lease each at once, each with
\* its own token stored
C28_Witness ==
    \E i, j \in Procs :
        /\ ~SameKey(i, j)
        /\ Did(i, "acquire") /\ Result(i) = Ok /\ is_some(lease_start[i])
        /\ Did(j, "acquire") /\ Result(j) = Ok /\ is_some(lease_start[j])
        /\ StoredToken(i) = Some(current_token[i])
        /\ StoredToken(j) = Some(current_token[j])
        /\ current_token[i] # current_token[j]

====
